---- MODULE Spec2Model ----
(***************************************************************************)
(* Verification model of go-syncstorage:                                   *)
(*   - web.handlerPool (src/web/syncPoolHandler_elements.go): the LRU pool *)
(*     of per-user handlers, with getElement, cleanupHandlers and          *)
(*     stopHandlers run by concurrent goroutines;                          *)
(*   - api.Context (src/unnamed/part_001): the Hawk authentication in      *)
(*     front of every sync API handler, the response shaper and the        *)
(*     storage handlers.                                                   *)
(* Specifications: Spec (the pool), LiveSpec (the pool under fair          *)
(* scheduling), CleanupSpec (one cleanupHandlers call), HawkSpec (the      *)
(* authentication), PureSpec (single function calls) and ApiSpec (the      *)
(* storage handlers).                                                      *)
(***************************************************************************)
EXTENDS Integers, Sequences, FiniteSets, TLC

\* ------------------------------------------------------------------------
\* Bounds of the model
\* ------------------------------------------------------------------------
\* goroutines calling into the pool, uids, and poolElements that exist at
\* the same time (in the pool or still referenced by a goroutine)
NProcs == 2
NUids == 3
MaxElems == 3

Procs == 1..NProcs
UIDs == 1..NUids

\* handlerPool.maxPoolSize as passed to newHandlerPool
maxPoolSize == 1

\* a nil *poolElement / *list.Element
Nil == <<0, 0>>

\* ------------------------------------------------------------------------
\* State of the pool
\* ------------------------------------------------------------------------
VARIABLES
    elements,   \* p.elements : uid -> *poolElement (Nil when the key is absent)
    lrumap,     \* p.lrumap   : uid -> *list.Element (Nil when the key is absent)
    lru,        \* p.lru      : the list, Front first; a node and the
                \*              poolElement it holds share one identity
    stopped,    \* the poolElements whose handler has had StopHTTP invoked
    mu,         \* p.Mutex    : 0 when free, else the goroutine holding it
    pc,         \* position of every goroutine
    op,         \* the pool method the goroutine is running
    uidArg,     \* getElement: uid
    lruElement, \* cleanupHandlers: lruElement
    next,       \* cleanupHandlers: next
    numCleaned, \* cleanupHandlers: numCleaned
    maxClean,   \* cleanupHandlers: maxClean
    ret,        \* getElement: the values being returned (element, created, err)
    snap,       \* stopHandlers: the elements in the pool when it was called
                \*               (kept for as long as the call is alone)
    alone,      \* stopHandlers: no getElement has run concurrently with it
    stopAll,    \* a stopHandlers call has returned
    sequential, \* no two calls into the pool have overlapped so far
    recent,     \* while sequential: the elements of the pool in the order of
                \* their last acquisition by getElement, the latest first
    underLock,  \* the blocking calls (disk, database, StopHTTP) made in the
                \* last step by a goroutine that held the pool lock meanwhile
    cleanupIn   \* cleanupHandlers called on its own: p.lru and maxClean at
                \* the call

poolVars == <<elements, lrumap, lru, stopped, mu, pc, op, uidArg,
              lruElement, next, numCleaned, maxClean, ret, snap, alone,
              stopAll, sequential, recent, underLock, cleanupIn>>

\* ------------------------------------------------------------------------
\* State of Context.hawk, the authentication of one request
\* ------------------------------------------------------------------------
VARIABLES
    DisableHawk, \* Context.DisableHawk
    req,         \* the request and what the libraries answer for it
    hpc,         \* position in the handler
    parsedToken, \* parsedToken (its Payload.Uid; 0 is the zero token)
    tokenError,  \* tokenError
    resp,        \* the response written by hawk itself (status 0: none)
    called,      \* the uid handed to the wrapped handler (NoCall: not invoked)
    passed,      \* the steps of the pipeline that succeeded, in order
    failedAt,    \* the step that answered the request with an error
    nreq,        \* 1 for the first request, 2 for the same request sent again
                 \* under another uid in the URL
    first        \* what the first request led to

hawkVars == <<DisableHawk, req, hpc, parsedToken, tokenError, resp, called,
              passed, failedAt, nreq, first>>

\* ------------------------------------------------------------------------
\* State of one call of a function of the program on its own
\* ------------------------------------------------------------------------
VARIABLES
    applied,    \* the function that is called ("none": no such call)
    fpc,        \* "call" before the call, "done" after it
    baseIn,     \* PathAndFile: p.base
    uidIn,      \* PathAndFile: uid
    pathOut,    \* PathAndFile: what TwoLevelPath and PathAndFile return, and
                \*              the dbFile that getElement builds of it
    valIn,      \* JsonNewline: val
    acceptIn,   \* JsonNewline: r.Header.Get("Accept")
    written,    \* JsonNewline: the response written to w
    sizeIn,     \* getElement: p.maxPoolSize
    batchOut    \* getElement: the argument it passes to cleanupHandlers

pureVars == <<applied, fpc, baseIn, uidIn, pathOut, valIn, acceptIn, written,
              sizeIn, batchOut>>

\* ------------------------------------------------------------------------
\* State of one request in a storage handler (hCollectionGET,
\* hCollectionPOST, hBsoGET, hBsoPUT, hBsoDELETE), behind acceptOK and hawk
\* ------------------------------------------------------------------------
VARIABLES
    MaxBSOGetLimit, \* Context.MaxBSOGetLimit
    areq,       \* the request, and what the libraries and the storage answer
                \* for it
    apc,        \* "start" before the handler runs, "done" after it
    aresp,      \* status, Content-Type and body written to w
    ahdrs,      \* the other response headers set by the handler
    aval,       \* the value handed to JsonNewline
    calls       \* the Dispatch operations invoked, in order

apiVars == <<MaxBSOGetLimit, areq, apc, aresp, ahdrs, aval, calls>>

\* ------------------------------------------------------------------------
\* container/list, as far as the pool uses it
\* ------------------------------------------------------------------------
InList(l, e) == \E i \in 1..Len(l) : l[i] = e

IndexOf(l, e) == CHOOSE i \in 1..Len(l) : l[i] = e

\* Mutant of Back: the front of the list.
Back_front(l) == IF Len(l) = 0 THEN Nil ELSE l[1]

\* List.Back: nil on an empty list
Back(l) == IF Len(l) = 0 THEN Nil ELSE l[Len(l)]

\* Element.Prev: nil when the element is in no list (it was removed) or is
\* the first one
Prev(l, e) ==
    IF InList(l, e) /\ IndexOf(l, e) > 1 THEN l[IndexOf(l, e) - 1] ELSE Nil

\* List.Remove: does nothing when the element is not (any more) in the list
Remove(l, e) == SelectSeq(l, LAMBDA x : x # e)

\* List.PushFront
PushFront(l, e) == <<e>> \o l

\* Mutant of MoveToFront: the element stays where it is.
MoveToFront_stays(l, e) == l

\* List.MoveToFront: does nothing when the element is not in the list
MoveToFront(l, e) == IF InList(l, e) THEN <<e>> \o Remove(l, e) ELSE l

\* poolElement.uid
UidOf(e) == e[1]

Nodes(l) == {l[i] : i \in 1..Len(l)}

\* ------------------------------------------------------------------------
\* The poolElements of the heap.  An element is <<uid, k>>; it lives as
\* long as the pool or a goroutine refers to it, and the identity of an
\* element nothing refers to any more is free for the next allocation.
\* ------------------------------------------------------------------------
Refs(l, el, lm, cur, nx, rt, sn) ==
    (Nodes(l) \cup {el[u] : u \in UIDs} \cup {lm[u] : u \in UIDs}
       \cup {cur[p] : p \in Procs} \cup {nx[p] : p \in Procs}
       \cup {rt[p].elem : p \in Procs} \cup UNION {sn[p] : p \in Procs})
    \ {Nil}

Live == Refs(lru, elements, lrumap, lruElement, next, ret, snap)

\* the k of the elements <<uid, k>> that nothing refers to
Free(uid) == (1..MaxElems) \ {e[2] : e \in {x \in Live : x[1] = uid}}

\* &poolElement{uid: uid, handler: NewSyncUserHandler(...)}
NewElement(uid) == <<uid, CHOOSE a \in Free(uid) : \A b \in Free(uid) : a <= b>>

\* the Stopped handlers of the next state: those of the elements that are
\* still referred to
Collect == stopped \cap Refs(lru', elements', lrumap', lruElement', next', ret', snap')

\* the getElement calls in progress
Running == {q \in Procs : pc[q] # "idle" /\ op[q] = "getElement"}

\* what getElement returns
NoRet == [elem |-> Nil, created |-> FALSE, err |-> "nil"]

Result(e, c, err) == [elem |-> e, created |-> c, err |-> err]

\* a call by p starts: the run stays sequential when no other call is in
\* progress
StaysSequential(p) == sequential /\ \A q \in Procs \ {p} : pc[q] = "idle"

\* the order of acquisition is followed for as long as the run is sequential
Track(r) == IF sequential' THEN r ELSE <<>>

\* getElement hands out e: e is the latest acquired
Acquired(r, e) == <<e>> \o SelectSeq(r, LAMBDA x : x # e)

\* the calls of names made by a goroutine that holds the pool lock (holds)
\* while it makes them
UnderLock(holds, names) == IF holds THEN names ELSE {}

\* no call of cleanupHandlers on its own
NoCleanup == [lru |-> <<>>, maxClean |-> 0]

\* newHandlerPool
PoolInit ==
    /\ elements = [u \in UIDs |-> Nil]
    /\ lrumap = [u \in UIDs |-> Nil]
    /\ lru = <<>>
    /\ stopped = {}
    /\ mu = 0
    /\ pc = [p \in Procs |-> "idle"]
    /\ op = [p \in Procs |-> "none"]
    /\ uidArg = [p \in Procs |-> 0]
    /\ lruElement = [p \in Procs |-> Nil]
    /\ next = [p \in Procs |-> Nil]
    /\ numCleaned = [p \in Procs |-> 0]
    /\ maxClean = [p \in Procs |-> 0]
    /\ ret = [p \in Procs |-> NoRet]
    /\ snap = [p \in Procs |-> {}]
    /\ alone = [p \in Procs |-> FALSE]
    /\ stopAll = FALSE
    /\ sequential = TRUE
    /\ recent = <<>>
    /\ underLock = {}
    /\ cleanupIn = NoCleanup

\* ------------------------------------------------------------------------
\* getElement
\* ------------------------------------------------------------------------

\* The construction of the poolElement and its insertion:
\* p.elements[uid] = element; p.lru.PushFront(element); p.lrumap[uid] = node
Insert(p, uid) ==
    LET e == NewElement(uid) IN
    /\ elements' = [elements EXCEPT ![uid] = e]
    /\ lru' = PushFront(lru, e)
    /\ lrumap' = [lrumap EXCEPT ![uid] = e]
    /\ ret' = [ret EXCEPT ![p] = Result(e, TRUE, "nil")]
    /\ recent' = Track(Acquired(recent, e))

\* p.Lock() and the first steps of every getElement call
Enter(p, uid) ==
    /\ pc[p] = "idle"
    /\ mu = 0
    /\ Cardinality(Live) + Cardinality(Running) < MaxElems
    /\ op' = [op EXCEPT ![p] = "getElement"]
    /\ uidArg' = [uidArg EXCEPT ![p] = uid]
    /\ alone' = [r \in Procs |-> FALSE]
    /\ snap' = [r \in Procs |-> {}]
    /\ sequential' = StaysSequential(p)
    /\ UNCHANGED <<lruElement, next, numCleaned, stopAll, cleanupIn>>
    /\ UNCHANGED <<hawkVars, pureVars, apiVars>>

\* uid is in p.elements and its handler is not stopped: MoveToFront
getElement_hit(p, uid) ==
    /\ Enter(p, uid)
    /\ elements[uid] # Nil
    /\ elements[uid] \notin stopped
    /\ lru' = MoveToFront(lru, lrumap[uid])
    /\ ret' = [ret EXCEPT ![p] = Result(elements[uid], FALSE, "nil")]
    /\ recent' = Track(Acquired(recent, elements[uid]))
    /\ mu' = p
    /\ underLock' = {}
    /\ pc' = [pc EXCEPT ![p] = "ge_ret"]
    /\ UNCHANGED <<elements, lrumap, maxClean>>
    /\ stopped' = Collect

\* Mutant of getElement_stopped: the Stopped element is replaced by a fresh
\* one, as if the else branch fell through to the construction.
getElement_stopped_rebuilds(p, uid) ==
    /\ Enter(p, uid)
    /\ elements[uid] # Nil
    /\ elements[uid] \in stopped
    /\ LET e == NewElement(uid) IN
       /\ lru' = PushFront(Remove(lru, elements[uid]), e)
       /\ elements' = [elements EXCEPT ![uid] = e]
       /\ lrumap' = [lrumap EXCEPT ![uid] = e]
       /\ ret' = [ret EXCEPT ![p] = Result(e, TRUE, "nil")]
       /\ recent' = Track(Acquired(recent, e))
    /\ mu' = p
    /\ underLock' = {}
    /\ pc' = [pc EXCEPT ![p] = "ge_ret"]
    /\ UNCHANGED maxClean
    /\ stopped' = Collect

\* uid is in p.elements and its handler IsStopped: errElementStopped
getElement_stopped(p, uid) ==
    /\ Enter(p, uid)
    /\ elements[uid] # Nil
    /\ elements[uid] \in stopped
    /\ ret' = [ret EXCEPT ![p] = Result(Nil, FALSE, "errElementStopped")]
    /\ mu' = p
    /\ underLock' = {}
    /\ pc' = [pc EXCEPT ![p] = "ge_ret"]
    /\ UNCHANGED <<elements, lrumap, lru, maxClean>>
    /\ recent' = Track(recent)
    /\ stopped' = Collect

\* uid is not in p.elements and os.MkdirAll fails
getElement_datadir(p, uid) ==
    /\ Enter(p, uid)
    /\ elements[uid] = Nil
    /\ ret' = [ret EXCEPT ![p] = Result(Nil, FALSE, "Could not create datadir")]
    /\ mu' = p
    /\ underLock' = UnderLock(mu' = p, {"os.Stat", "os.MkdirAll"})
    /\ pc' = [pc EXCEPT ![p] = "ge_ret"]
    /\ UNCHANGED <<elements, lrumap, lru, maxClean>>
    /\ recent' = Track(recent)
    /\ stopped' = Collect

\* Mutant of cleanupBatch: a tenth of the pool size, rounded up.
cleanupBatch_ceil(size) == (size + 9) \div 10

\* the argument of the cleanup that getElement runs: 1 + p.maxPoolSize/10
cleanupBatch(size) == 1 + (size \div 10)

\* Mutant of getElement_full: cleanupHandlers is called with the lock held.
getElement_full_locked(p, uid) ==
    /\ Enter(p, uid)
    /\ elements[uid] = Nil
    /\ Len(lru) > maxPoolSize
    /\ mu' = p
    /\ underLock' = {}
    /\ maxClean' = [maxClean EXCEPT ![p] = cleanupBatch(maxPoolSize)]
    /\ pc' = [pc EXCEPT ![p] = "cl_back"]
    /\ UNCHANGED <<elements, lrumap, lru, ret>>
    /\ recent' = Track(recent)
    /\ stopped' = Collect

\* uid is not in p.elements and p.lru.Len() > p.maxPoolSize:
\* p.Unlock(); p.cleanupHandlers(1 + p.maxPoolSize/10)
getElement_full(p, uid) ==
    /\ Enter(p, uid)
    /\ elements[uid] = Nil
    /\ Len(lru) > maxPoolSize
    /\ mu' = 0
    /\ underLock' = {}
    /\ maxClean' = [maxClean EXCEPT ![p] = cleanupBatch(maxPoolSize)]
    /\ pc' = [pc EXCEPT ![p] = "cl_back"]
    /\ UNCHANGED <<elements, lrumap, lru, ret>>
    /\ recent' = Track(recent)
    /\ stopped' = Collect

\* syncstorage.NewDB, then the insertion unless NewDB failed
Create(p, uid) ==
    /\ \/ Insert(p, uid)
       \/ /\ ret' = [ret EXCEPT ![p] = Result(Nil, FALSE, "Could not create DB")]
          /\ UNCHANGED <<elements, lrumap, lru>>
          /\ recent' = Track(recent)
    /\ mu' = p
    /\ underLock' = UnderLock(mu' = p, {"syncstorage.NewDB"})
    /\ pc' = [pc EXCEPT ![p] = "ge_ret"]
    /\ stopped' = Collect

\* uid is not in p.elements, the pool is not over its size: NewDB and insert
getElement_miss(p, uid) ==
    /\ Enter(p, uid)
    /\ elements[uid] = Nil
    /\ ~(Len(lru) > maxPoolSize)
    /\ Create(p, uid)
    /\ UNCHANGED maxClean

\* after the cleanup: p.Lock(), NewDB and insert
getElement_relock(p) ==
    /\ pc[p] = "ge_relock"
    /\ UNCHANGED <<hawkVars, pureVars, apiVars>>
    /\ UNCHANGED cleanupIn
    /\ mu = 0
    /\ UNCHANGED <<op, uidArg, lruElement, next, numCleaned,
                   maxClean, snap, alone, stopAll, sequential>>
    /\ Create(p, uidArg[p])

\* return element, elementCreated, err: the deferred p.Unlock()
getElement_return(p) ==
    /\ pc[p] = "ge_ret"
    /\ UNCHANGED <<hawkVars, pureVars, apiVars>>
    /\ UNCHANGED cleanupIn
    /\ mu = p
    /\ mu' = 0
    /\ underLock' = {}
    /\ ret' = [ret EXCEPT ![p] = NoRet]
    /\ op' = [op EXCEPT ![p] = "none"]
    /\ uidArg' = [uidArg EXCEPT ![p] = 0]
    /\ pc' = [pc EXCEPT ![p] = "idle"]
    /\ UNCHANGED <<elements, lrumap, lru, lruElement, next, numCleaned,
                   maxClean, snap, alone, stopAll, sequential, recent>>
    /\ stopped' = Collect

getElement(p) ==
    \/ \E uid \in UIDs :
          \/ getElement_hit(p, uid)
          \/ getElement_stopped(p, uid)
          \/ getElement_datadir(p, uid)
          \/ getElement_full(p, uid)
          \/ getElement_miss(p, uid)
    \/ getElement_relock(p)
    \/ getElement_return(p)

\* ------------------------------------------------------------------------
\* cleanupHandlers
\* ------------------------------------------------------------------------

\* where a goroutine goes when the loop of cleanupHandlers ends
AfterCleanup(p) ==
    CASE op[p] = "getElement" -> "ge_relock"
      [] op[p] = "stopHandlers" -> "sh_ret"
      [] OTHER -> "cl_ret"

\* Mutant of Continue: the loop stops one element early.
Continue_early(p, e, n) == e # Nil /\ n + 1 < maxClean[p]

\* the loop condition: lruElement != nil && numCleaned < maxClean
Continue(p, e, n) == e # Nil /\ n < maxClean[p]

\* numCleaned := 0; lruElement := p.lru.Back()  (read without the pool lock)
cleanupHandlers_back(p) ==
    /\ pc[p] = "cl_back"
    /\ UNCHANGED <<hawkVars, pureVars, apiVars>>
    /\ UNCHANGED cleanupIn
    /\ IF Continue(p, Back(lru), 0)
       THEN /\ lruElement' = [lruElement EXCEPT ![p] = Back(lru)]
            /\ pc' = [pc EXCEPT ![p] = "cl_stop"]
            /\ UNCHANGED maxClean
       ELSE /\ maxClean' = [maxClean EXCEPT ![p] = 0]
            /\ pc' = [pc EXCEPT ![p] = AfterCleanup(p)]
            /\ UNCHANGED lruElement
    /\ underLock' = {}
    /\ UNCHANGED <<elements, lrumap, lru, stopped, mu, op, uidArg,
                   next, numCleaned, ret, snap, alone,
                   stopAll, sequential, recent>>

\* element.handler.StopHTTP()  (without the pool lock)
cleanupHandlers_stop(p) ==
    /\ pc[p] = "cl_stop"
    /\ UNCHANGED <<hawkVars, pureVars, apiVars>>
    /\ UNCHANGED cleanupIn
    /\ stopped' = stopped \cup {lruElement[p]}
    /\ underLock' = UnderLock(mu = p, {"StopHTTP"})
    /\ pc' = [pc EXCEPT ![p] = "cl_prev"]
    /\ UNCHANGED <<elements, lrumap, lru, mu, op, uidArg, lruElement,
                   next, numCleaned, maxClean, ret, snap, alone,
                   stopAll, sequential, recent>>

\* next := lruElement.Prev()  (read without the pool lock)
cleanupHandlers_prev(p) ==
    /\ pc[p] = "cl_prev"
    /\ UNCHANGED <<hawkVars, pureVars, apiVars>>
    /\ UNCHANGED cleanupIn
    /\ next' = [next EXCEPT ![p] = Prev(lru, lruElement[p])]
    /\ underLock' = {}
    /\ pc' = [pc EXCEPT ![p] = "cl_remove"]
    /\ UNCHANGED <<elements, lrumap, lru, stopped, mu, op, uidArg,
                   lruElement, numCleaned, maxClean, ret, snap, alone,
                   stopAll, sequential, recent>>

\* p.Lock(); p.lru.Remove(lruElement); delete(p.lrumap, element.uid);
\* delete(p.elements, element.uid); p.Unlock(); lruElement = next;
\* numCleaned++; and the loop condition
cleanupHandlers_remove(p) ==
    /\ pc[p] = "cl_remove"
    /\ UNCHANGED <<hawkVars, pureVars, apiVars>>
    /\ UNCHANGED cleanupIn
    /\ mu = 0
    /\ underLock' = {}
    /\ lru' = Remove(lru, lruElement[p])
    /\ lrumap' = [lrumap EXCEPT ![UidOf(lruElement[p])] = Nil]
    /\ elements' = [elements EXCEPT ![UidOf(lruElement[p])] = Nil]
    /\ next' = [next EXCEPT ![p] = Nil]
    /\ IF Continue(p, next[p], numCleaned[p] + 1)
       THEN /\ lruElement' = [lruElement EXCEPT ![p] = next[p]]
            /\ numCleaned' = [numCleaned EXCEPT ![p] = @ + 1]
            /\ pc' = [pc EXCEPT ![p] = "cl_stop"]
            /\ UNCHANGED maxClean
       ELSE /\ lruElement' = [lruElement EXCEPT ![p] = Nil]
            /\ numCleaned' = [numCleaned EXCEPT ![p] = 0]
            /\ maxClean' = [maxClean EXCEPT ![p] = 0]
            /\ pc' = [pc EXCEPT ![p] = AfterCleanup(p)]
    /\ recent' = SelectSeq(recent, LAMBDA x : x # lruElement[p])
    /\ UNCHANGED <<mu, op, uidArg, ret, snap, alone, stopAll, sequential>>
    /\ stopped' = Collect

cleanupHandlers(p) ==
    \/ cleanupHandlers_back(p)
    \/ cleanupHandlers_stop(p)
    \/ cleanupHandlers_prev(p)
    \/ cleanupHandlers_remove(p)

\* ------------------------------------------------------------------------
\* stopHandlers
\* ------------------------------------------------------------------------

\* p.cleanupHandlers(p.lru.Len()): the argument is read without the pool lock.
\* stopHandlers is the shutdown of the server: one call of it at a time.
stopHandlers_call(p) ==
    /\ pc[p] = "idle"
    /\ UNCHANGED <<hawkVars, pureVars, apiVars>>
    /\ UNCHANGED cleanupIn
    /\ \A q \in Procs : op[q] # "stopHandlers"
    /\ op' = [op EXCEPT ![p] = "stopHandlers"]
    /\ maxClean' = [maxClean EXCEPT ![p] = Len(lru)]
    /\ alone' = [alone EXCEPT ![p] = (Running = {})]
    /\ snap' = [snap EXCEPT ![p] = IF Running = {} THEN Nodes(lru) ELSE {}]
    /\ pc' = [pc EXCEPT ![p] = "cl_back"]
    /\ sequential' = StaysSequential(p)
    /\ recent' = Track(recent)
    /\ underLock' = {}
    /\ UNCHANGED <<elements, lrumap, lru, stopped, mu, uidArg,
                   lruElement, next, numCleaned, ret, stopAll>>

stopHandlers_return(p) ==
    /\ pc[p] = "sh_ret"
    /\ UNCHANGED <<hawkVars, pureVars, apiVars>>
    /\ UNCHANGED cleanupIn
    /\ op' = [op EXCEPT ![p] = "none"]
    /\ snap' = [snap EXCEPT ![p] = {}]
    /\ alone' = [alone EXCEPT ![p] = FALSE]
    /\ pc' = [pc EXCEPT ![p] = "idle"]
    /\ stopAll' = TRUE
    /\ underLock' = {}
    /\ UNCHANGED <<elements, lrumap, lru, mu, uidArg,
                   lruElement, next, numCleaned, maxClean, ret,
                   sequential, recent>>
    /\ stopped' = Collect

stopHandlers(p) ==
    \/ stopHandlers_call(p)
    \/ stopHandlers_return(p)

\* ------------------------------------------------------------------------
\* One call cleanupHandlers(maxClean) on its own, on a pool at rest or with a
\* getElement call that has its element and has not returned yet
\* ------------------------------------------------------------------------
\* the largest maxClean of such a call
MaxCleanup == NUids + 1

\* the lists of a pool: one element per uid
PoolLists ==
    {l \in UNION {[1..n -> {<<u, 1>> : u \in UIDs}] : n \in 0..NUids} :
        \A i, j \in 1..Len(l) : i # j => l[i] # l[j]}

\* the goroutine that calls cleanupHandlers
Cleaner == 1

\* The pool holds the elements of l, Cleaner calls cleanupHandlers(n), and
\* getter (0: nobody) is in a getElement that has moved or pushed the front
\* element to the front and holds the pool lock until it returns.
CleanupCall(l, n, getter, created) ==
    /\ lru = l
    /\ elements = [u \in UIDs |-> IF <<u, 1>> \in Nodes(l) THEN <<u, 1>> ELSE Nil]
    /\ lrumap = [u \in UIDs |-> IF <<u, 1>> \in Nodes(l) THEN <<u, 1>> ELSE Nil]
    /\ stopped = {}
    /\ mu = getter
    /\ pc = [p \in Procs |-> IF p = Cleaner THEN "cl_back"
                             ELSE IF p = getter THEN "ge_ret" ELSE "idle"]
    /\ op = [p \in Procs |-> IF p = Cleaner THEN "cleanupHandlers"
                             ELSE IF p = getter THEN "getElement" ELSE "none"]
    /\ uidArg = [p \in Procs |-> IF p = getter THEN UidOf(l[1]) ELSE 0]
    /\ lruElement = [p \in Procs |-> Nil]
    /\ next = [p \in Procs |-> Nil]
    /\ numCleaned = [p \in Procs |-> 0]
    /\ maxClean = [p \in Procs |-> IF p = Cleaner THEN n ELSE 0]
    /\ ret = [p \in Procs |-> IF p = getter THEN Result(l[1], created, "nil")
                              ELSE NoRet]
    /\ snap = [p \in Procs |-> {}]
    /\ alone = [p \in Procs |-> FALSE]
    /\ stopAll = FALSE
    /\ sequential = (getter = 0)
    /\ recent = IF getter = 0 THEN l ELSE <<>>
    /\ underLock = {}
    /\ cleanupIn = [lru |-> l, maxClean |-> n]

CleanupInit ==
    \E l \in PoolLists, n \in 0..MaxCleanup :
        \/ CleanupCall(l, n, 0, FALSE)
        \/ /\ l # <<>>
           /\ \E getter \in Procs \ {Cleaner}, created \in BOOLEAN :
                  CleanupCall(l, n, getter, created)

\* cleanupHandlers returns to its caller
cleanupHandlers_return(p) ==
    /\ pc[p] = "cl_ret"
    /\ UNCHANGED <<hawkVars, pureVars, apiVars>>
    /\ UNCHANGED cleanupIn
    /\ op' = [op EXCEPT ![p] = "none"]
    /\ pc' = [pc EXCEPT ![p] = "idle"]
    /\ underLock' = {}
    /\ UNCHANGED <<elements, lrumap, lru, mu, uidArg, lruElement, next,
                   numCleaned, maxClean, ret, snap, alone, stopAll,
                   sequential, recent>>
    /\ stopped' = Collect

CleanupNext ==
    \E p \in Procs :
        \/ cleanupHandlers(p)
        \/ cleanupHandlers_return(p)
        \/ getElement_return(p)

PoolNext == \E p \in Procs : getElement(p) \/ cleanupHandlers(p) \/ stopHandlers(p)

TypeOK ==
    /\ mu \in {0} \cup Procs
    /\ Live \subseteq UIDs \X (1..MaxElems)
    /\ stopped \subseteq Live
    /\ sequential => Nodes(recent) = Nodes(lru)
    /\ ~sequential => recent = <<>>

\* ------------------------------------------------------------------------
\* TwoLevelPath and PathAndFile.  A string is the sequence of its characters,
\* a path the sequence of its components.
\* ------------------------------------------------------------------------
\* the longest uid of the model, and its digits
MaxUidLen == 5
UidDigits == {"0", "1", "7"}

UidStrings ==
    UNION {[1..n -> UidDigits] : n \in 0..MaxUidLen}
        \cup {<<"1", "2", "3", "4", "5", "6", "7", "8">>}

\* p.base: the components of the absolute basepath (the first one is empty,
\* the path starts with the separator), or the single component ":memory:"
InMemory == << <<":memory:">> >>
Bases == {InMemory, << <<>>, <<"d">> >>, << <<>>, <<"d">>, <<"1", "0">> >>}

\* the Go slice s[a:b]
Slice(s, a, b) == SubSeq(s, a + 1, b)

\* Mutant of TwoLevelPath: the digits of each directory in the order of the uid.
TwoLevelPath_forward(u) ==
    LET l == Len(u) IN
    IF l >= 4 THEN << Slice(u, l - 2, l - 1) \o Slice(u, l - 1, l),
                      Slice(u, l - 4, l - 3) \o Slice(u, l - 3, l - 2) >>
    ELSE IF l >= 2 THEN << Slice(u, l - 2, l - 1) \o Slice(u, l - 1, l) >>
    ELSE <<>>

TwoLevelPath(u) ==
    LET l == Len(u) IN
    IF l >= 4 THEN << Slice(u, l - 1, l) \o Slice(u, l - 2, l - 1),
                      Slice(u, l - 3, l - 2) \o Slice(u, l - 4, l - 3) >>
    ELSE IF l >= 2 THEN << Slice(u, l - 1, l) \o Slice(u, l - 2, l - 1) >>
    ELSE <<>>

\* filepath.Join: the non-empty elements, separated
Join(elems) == SelectSeq(elems, LAMBDA c : c # <<>>)

\* PathAndFile: the path is the separator followed by the joined components
PathAndFile(base, u) ==
    [path |-> Join(base \o TwoLevelPath(u)),
     file |-> u \o <<".", "d", "b">>]

\* getElement: dbFile
DbFile(base, u) ==
    IF Len(base) = 1 /\ base[1] = <<":memory:">>
    THEN InMemory
    ELSE Append(PathAndFile(base, u).path, PathAndFile(base, u).file)

NoPath == [dirs |-> <<>>, path |-> <<>>, file |-> <<>>, dbFile |-> <<>>]

\* one call of PathAndFile, and of what getElement does with its result
call_PathAndFile ==
    /\ applied = "PathAndFile" /\ fpc = "call"
    /\ pathOut' = [dirs |-> TwoLevelPath(uidIn),
                   path |-> PathAndFile(baseIn, uidIn).path,
                   file |-> PathAndFile(baseIn, uidIn).file,
                   dbFile |-> DbFile(baseIn, uidIn)]
    /\ fpc' = "done"
    /\ UNCHANGED <<applied, baseIn, uidIn, valIn, acceptIn, written,
                   sizeIn, batchOut>>
    /\ UNCHANGED <<poolVars, hawkVars, apiVars>>

\* one evaluation of the argument of cleanupHandlers in getElement
MaxPoolSizeIn == 40

call_cleanupBatch ==
    /\ applied = "cleanupBatch" /\ fpc = "call"
    /\ batchOut' = cleanupBatch(sizeIn)
    /\ fpc' = "done"
    /\ UNCHANGED <<applied, baseIn, uidIn, pathOut, valIn, acceptIn, written,
                   sizeIn>>
    /\ UNCHANGED <<poolVars, hawkVars, apiVars>>

\* ------------------------------------------------------------------------
\* Context.hawk: the authentication in front of every sync API handler
\* ------------------------------------------------------------------------
\* the longest list of secrets, and the largest uid of a token
MaxSecrets == 2
MaxTokenUid == 12

\* strings of decimal digits
NoUid == <<>>
URLUids == {<<7>>, <<1, 2>>, <<0, 7>>}
TokenUids == {0, 7, MaxTokenUid}
NoCall == <<10>>

\* Content-Type header values ("" when the header is absent) and bodies
ContentTypes == {"", "application/json"}
Bodies == {<<>>, <<1>>}

\* A Hawk payload hash is the SHA-256 of the content type and the bytes
\* written to it; NoHash when the header carries none.
NoHash == <<"none">>
PayloadHash(ct, bytes) == <<ct, bytes>>
Hashes == {PayloadHash(ct, b) : ct \in ContentTypes \ {""}, b \in Bodies}

\* what token.ParseToken answers for one secret
ParseResults == {"ok", "Invalid", "Expired"}

Requests ==
    [ hdr     : {"ok", "AuthFormatError", "error"},  \* hawk.NewAuthFromRequest
      parse   : UNION {[1..n -> ParseResults] : n \in 1..MaxSecrets},
                                    \* token.ParseToken, one answer per secret
      tokUid  : TokenUids,          \* Payload.Uid of the token
      mac     : BOOLEAN,            \* auth.Valid() with the token's key
      hash    : {NoHash} \cup Hashes,   \* auth.Hash
      ct      : ContentTypes,       \* r.Header.Get("Content-Type")
      body    : Bodies,             \* r.Body
      readErr : BOOLEAN,            \* ioutil.ReadAll fails
      urlUid  : {NoUid} \cup URLUids ]  \* mux.Vars(r)["uid"]

NoResp == [status |-> 0, www |-> FALSE, msg |-> ""]

\* http.Error(w, msg, status), after w.Header().Set("WWW-Authenticate", "Hawk")
\* when www
Error(status, www, msg) == [status |-> status, www |-> www, msg |-> msg]

\* strconv.FormatUint(n, 10)
RECURSIVE FormatUint(_)
FormatUint(n) == IF n < 10 THEN <<n>> ELSE FormatUint(n \div 10) \o <<n % 10>>

\* The loop over c.Secrets.  Every iteration assigns parsedToken and
\* tokenError; `if err != nil { continue }` tests the err of
\* NewAuthFromRequest, which is nil here, and is the last statement of the
\* body anyway.  st is <<parsedToken, tokenError>>.
RECURSIVE SecretsLoop(_, _, _)
SecretsLoop(r, i, st) ==
    IF i > Len(r.parse) THEN st
    ELSE SecretsLoop(r, i + 1,
                     IF r.parse[i] = "ok" THEN <<r.tokUid, "nil">>
                                          ELSE <<0, r.parse[i]>>)

HawkIdle ==
    /\ DisableHawk = FALSE
    /\ req = [hdr |-> "ok", parse |-> <<"ok">>, tokUid |-> 0, mac |-> TRUE,
              hash |-> NoHash, ct |-> "", body |-> <<>>, readErr |-> FALSE,
              urlUid |-> NoUid]
    /\ hpc = "done"
    /\ parsedToken = 0
    /\ tokenError = "Invalid"
    /\ resp = NoResp
    /\ called = NoCall
    /\ passed = <<>>
    /\ failedAt = "none"
    /\ nreq = 2
    /\ first = NoCall

\* a request arrives
HawkInit ==
    /\ DisableHawk \in BOOLEAN
    /\ req \in Requests
    /\ hpc = "start"
    /\ parsedToken = 0
    /\ tokenError = "Invalid"
    /\ resp = NoResp
    /\ called = NoCall
    /\ passed = <<>>
    /\ failedAt = "none"
    /\ nreq = 1
    /\ first = NoCall

\* the request is answered by hawk with an error
Fail(step, r) ==
    /\ resp' = r
    /\ failedAt' = step
    /\ hpc' = "done"
    /\ UNCHANGED <<called, passed>>

Pass(step, to) ==
    /\ passed' = Append(passed, step)
    /\ hpc' = to
    /\ UNCHANGED <<resp, called, failedAt>>

\* c.DisableHawk: the uid comes from the URL
hawk_disabled ==
    /\ hpc = "start"
    /\ UNCHANGED <<poolVars, pureVars, apiVars>>
    /\ DisableHawk
    /\ IF req.urlUid = NoUid
       THEN Fail("uid", Error(400, FALSE, "do not have a uid to work with"))
       ELSE /\ called' = req.urlUid
            /\ hpc' = "done"
            /\ UNCHANGED <<resp, passed, failedAt>>
    /\ UNCHANGED <<DisableHawk, req, parsedToken, tokenError, nreq, first>>

\* Step 1: hawk.NewAuthFromRequest
hawk_header ==
    /\ hpc = "start"
    /\ UNCHANGED <<poolVars, pureVars, apiVars>>
    /\ ~DisableHawk
    /\ CASE req.hdr = "AuthFormatError" ->
                Fail("header", Error(400, FALSE, "Malformed hawk header"))
         [] req.hdr = "error" ->
                Fail("header", Error(401, TRUE, "error"))
         [] OTHER -> Pass("header", "token")
    /\ UNCHANGED <<DisableHawk, req, parsedToken, tokenError, nreq, first>>

\* Step 2: the token, parsed with every secret of c.Secrets
hawk_token ==
    /\ hpc = "token"
    /\ UNCHANGED <<poolVars, pureVars, apiVars>>
    /\ LET st == SecretsLoop(req, 1, <<0, "Invalid">>) IN
       /\ parsedToken' = st[1]
       /\ tokenError' = st[2]
       /\ IF st[2] # "nil"
          THEN Fail("token", Error(400, FALSE, st[2]))
          ELSE Pass("token", "valid")
    /\ UNCHANGED <<DisableHawk, req, nreq, first>>

\* Mutant of hawk_valid: the 401 is written but the handler does not return.
hawk_valid_noreturn ==
    /\ hpc = "valid"
    /\ UNCHANGED <<poolVars, pureVars, apiVars>>
    /\ IF ~req.mac
       THEN /\ resp' = Error(401, TRUE, "invalid mac")
            /\ failedAt' = "mac"
            /\ hpc' = "hash"
            /\ UNCHANGED <<called, passed>>
       ELSE Pass("mac", "hash")
    /\ UNCHANGED <<DisableHawk, req, parsedToken, tokenError, nreq, first>>

\* Step 3: auth.Valid()
hawk_valid ==
    /\ hpc = "valid"
    /\ UNCHANGED <<poolVars, pureVars, apiVars>>
    /\ IF ~req.mac
       THEN Fail("mac", Error(401, TRUE, "invalid mac"))
       ELSE Pass("mac", "hash")
    /\ UNCHANGED <<DisableHawk, req, parsedToken, tokenError, nreq, first>>

\* Step 4: the payload hash, if the header carries one.  pHash.Sum(content)
\* appends the digest to content and writes nothing to the hash, so the hash
\* that is compared is the one of the content type and no bytes.
hawk_hash ==
    /\ hpc = "hash"
    /\ UNCHANGED <<poolVars, pureVars, apiVars>>
    /\ IF req.hash = NoHash THEN Pass("hash", "call")
       ELSE IF req.ct = ""
            THEN Fail("hash", Error(400, FALSE, "Content-Type missing"))
       ELSE IF req.readErr
            THEN Fail("hash", Error(500, FALSE, "Could not read request body"))
       ELSE IF PayloadHash(req.ct, <<>>) # req.hash
            THEN Fail("hash", Error(401, TRUE, "Hawk error, payload hash invalid"))
       ELSE Pass("hash", "call")
    /\ UNCHANGED <<DisableHawk, req, parsedToken, tokenError, nreq, first>>

\* Mutant of hawk_call: the handler is handed the uid of the URL.
hawk_call_urluid ==
    /\ hpc = "call"
    /\ UNCHANGED <<poolVars, pureVars, apiVars>>
    /\ called' = IF req.urlUid = NoUid THEN <<0>> ELSE req.urlUid
    /\ hpc' = "done"
    /\ UNCHANGED <<DisableHawk, req, parsedToken, tokenError, resp, passed,
                   failedAt, nreq, first>>

\* Step 5: h(w, r, strconv.FormatUint(parsedToken.Payload.Uid, 10))
hawk_call ==
    /\ hpc = "call"
    /\ UNCHANGED <<poolVars, pureVars, apiVars>>
    /\ called' = FormatUint(parsedToken)
    /\ hpc' = "done"
    /\ UNCHANGED <<DisableHawk, req, parsedToken, tokenError, resp, passed,
                   failedAt, nreq, first>>

\* the same request arrives again with another uid in its URL
hawk_again ==
    /\ hpc = "done"
    /\ UNCHANGED <<poolVars, pureVars, apiVars>>
    /\ nreq = 1
    /\ \E u \in URLUids \ {req.urlUid} : req' = [req EXCEPT !.urlUid = u]
    /\ first' = called
    /\ nreq' = 2
    /\ hpc' = "start"
    /\ parsedToken' = 0
    /\ tokenError' = "Invalid"
    /\ resp' = NoResp
    /\ called' = NoCall
    /\ passed' = <<>>
    /\ failedAt' = "none"
    /\ UNCHANGED DisableHawk

hawk ==
    \/ hawk_disabled
    \/ hawk_header
    \/ hawk_token
    \/ hawk_valid
    \/ hawk_hash
    \/ hawk_call
    \/ hawk_again

\* ------------------------------------------------------------------------
\* JsonNewline, NewLine and JSON: the response of a handler.  A JSON text is
\* the sequence of its tokens; a value that is no array is one token.
\* ------------------------------------------------------------------------
\* the longest slice of the model
MaxArrayLen == 3

\* the JSON texts of values that are no arrays
Atoms == {"{a}", "{b}", "'a'", "7"}

\* Go values: a slice of elems; a nil pointer, map or slice; a value that is
\* no array (struct, map, string, number) with the JSON text elems[1]; a
\* value json.Marshal has no encoding for
Values ==
    [kind : {"slice"}, elems : UNION {[1..n -> Atoms] : n \in 0..MaxArrayLen}]
        \cup [kind : {"value"}, elems : {<<a>> : a \in Atoms}]
        \cup [kind : {"nil", "unsupported"}, elems : {<<>>}]

NilValue == [kind |-> "nil", elems |-> <<>>]

Accepts == {"", "application/json", "application/newlines", "text/html"}

\* the elements of an array, separated by commas
RECURSIVE Commas(_)
Commas(elems) ==
    IF Len(elems) <= 1 THEN elems
    ELSE <<elems[1], ",">> \o Commas(Tail(elems))

\* json.Marshal(val)
Marshal(v) ==
    CASE v.kind = "unsupported" -> [err |-> TRUE, js |-> <<>>]
      [] v.kind = "nil" -> [err |-> FALSE, js |-> <<"null">>]
      [] v.kind = "slice" ->
            [err |-> FALSE, js |-> <<"[">> \o Commas(v.elems) \o <<"]">>]
      [] OTHER -> [err |-> FALSE, js |-> v.elems]

\* json.Unmarshal(js, &vals) with vals a []json.RawMessage: an array gives
\* its elements, null gives the nil slice and no error, anything else fails
Unmarshal(js) ==
    IF js = <<"null">> THEN [err |-> FALSE, vals |-> <<>>]
    ELSE IF js[1] = "["
         THEN [err |-> FALSE,
               vals |-> SelectSeq(SubSeq(js, 2, Len(js) - 1),
                                  LAMBDA t : t # ",")]
    ELSE [err |-> TRUE, vals |-> <<>>]

\* what a handler has written to w
Response(status, ctype, body) ==
    [status |-> status, ctype |-> ctype, body |-> body]

NoWrite == Response(0, "", <<>>)

\* http.Error(w, msg, status)
HttpError(msg, status) ==
    Response(status, "text/plain; charset=utf-8", <<msg, "\n">>)

\* Context.Error
ContextError == HttpError("Internal Server Error", 500)

\* raw, "\n" for every raw of vals
RECURSIVE Lines(_)
Lines(vals) ==
    IF vals = <<>> THEN <<>>
    ELSE <<vals[1], "\n">> \o Lines(Tail(vals))

\* Context.NewLine
NewLine(v) ==
    LET m == Marshal(v) IN
    IF m.err THEN ContextError
    ELSE LET u == Unmarshal(m.js) IN
         Response(200, "application/newlines",
                  IF u.err THEN m.js \o <<"\n">> ELSE Lines(u.vals))

\* Context.JSON
JSON(v) ==
    LET m == Marshal(v) IN
    IF m.err THEN ContextError
    ELSE Response(200, "application/json", m.js)

\* Context.JsonNewline
JsonNewline(accept, v) ==
    IF accept = "application/newlines" THEN NewLine(v) ELSE JSON(v)

\* one call of JsonNewline
call_JsonNewline ==
    /\ applied = "JsonNewline" /\ fpc = "call"
    /\ written' = JsonNewline(acceptIn, valIn)
    /\ fpc' = "done"
    /\ UNCHANGED <<applied, baseIn, uidIn, pathOut, valIn, acceptIn,
                   sizeIn, batchOut>>
    /\ UNCHANGED <<poolVars, hawkVars, apiVars>>

\* no function is called on its own
PureIdle ==
    /\ applied = "none" /\ fpc = "done"
    /\ baseIn = InMemory /\ uidIn = <<>> /\ pathOut = NoPath
    /\ valIn = NilValue /\ acceptIn = "" /\ written = NoWrite
    /\ sizeIn = 0 /\ batchOut = 0

\* the function that is called and its arguments
PureInit ==
    /\ applied \in {"PathAndFile", "JsonNewline", "cleanupBatch"}
    /\ fpc = "call"
    /\ IF applied = "PathAndFile"
       THEN baseIn \in Bases /\ uidIn \in UidStrings
       ELSE baseIn = InMemory /\ uidIn = <<>>
    /\ pathOut = NoPath
    /\ IF applied = "JsonNewline"
       THEN valIn \in Values /\ acceptIn \in Accepts
       ELSE valIn = NilValue /\ acceptIn = ""
    /\ written = NoWrite
    /\ IF applied = "cleanupBatch"
       THEN sizeIn \in 1..MaxPoolSizeIn
       ELSE sizeIn = 0
    /\ batchOut = 0

PureNext ==
    \/ call_PathAndFile
    \/ call_JsonNewline
    \/ call_cleanupBatch

\* ------------------------------------------------------------------------
\* The storage handlers.  The uid is handed through to every Dispatch
\* operation as it came from hawk and is left out.
\* ------------------------------------------------------------------------
MAX_BSO_PER_POST_REQUEST == 100
MAX_BSO_GET_LIMIT == 2500

\* the most ids a collection GET takes (the literal of hCollectionGET)
MaxGetIds == 100

\* a Dispatch operation invoked by a handler
Call(name, args) == [op |-> name, args |-> args]

\* the id of the collection of the request, when it has one
TheCid == 7

\* What CollectionNameOk, GetCollectionId and CreateCollection answer for the
\* collection of the request: "found"; "ErrNotFound" (and CreateCollection
\* succeeds); "createError" (ErrNotFound, and CreateCollection fails);
\* "ErrInvalidCollectionName"; "error" (GetCollectionId fails otherwise)
ReadLookups == {"found", "ErrNotFound", "ErrInvalidCollectionName", "error"}
WriteLookups == ReadLookups \cup {"createError"}

\* Mutant of getcid: a collection that is not found is always created.
getcid_automakes(r, automake) ==
    LET get == Call("GetCollectionId", <<r.collection>>)
        create == Call("CreateCollection", <<r.collection>>)
    IN  CASE r.coll = "ErrInvalidCollectionName" ->
                [cId |-> 0, err |-> "ErrInvalidCollectionName", calls |-> <<>>]
          [] r.coll = "found" ->
                [cId |-> TheCid, err |-> "nil", calls |-> <<get>>]
          [] r.coll = "error" ->
                [cId |-> 0, err |-> "error", calls |-> <<get>>]
          [] r.coll = "createError" ->
                [cId |-> 0, err |-> "error", calls |-> <<get, create>>]
          [] OTHER ->
                [cId |-> TheCid, err |-> "nil", calls |-> <<get, create>>]

\* Context.getcid
getcid(r, automake) ==
    LET get == Call("GetCollectionId", <<r.collection>>)
        create == Call("CreateCollection", <<r.collection>>)
    IN  CASE r.coll = "ErrInvalidCollectionName" ->
                [cId |-> 0, err |-> "ErrInvalidCollectionName", calls |-> <<>>]
          [] r.coll = "found" ->
                [cId |-> TheCid, err |-> "nil", calls |-> <<get>>]
          [] r.coll = "error" ->
                [cId |-> 0, err |-> "error", calls |-> <<get>>]
          [] OTHER ->
                IF ~automake
                THEN [cId |-> 0, err |-> "ErrNotFound", calls |-> <<get>>]
                ELSE IF r.coll = "createError"
                THEN [cId |-> 0, err |-> "error", calls |-> <<get, create>>]
                ELSE [cId |-> TheCid, err |-> "nil", calls |-> <<get, create>>]

\* A second response written to w after a first one: the status line and the
\* headers have been sent with the first, the body goes on.
Then(before, after) ==
    IF before.status = 0 THEN after
    ELSE [before EXCEPT !.body = before.body \o after.body]

\* the value handed to JsonNewline: what it is, and the ids or BSOs in it
NoValue == [kind |-> "none", list |-> <<>>, failed |-> {}]

\* what a handler has done when it returns
Handled(answer, hdrs, val, cs) ==
    [resp |-> answer, hdrs |-> hdrs, val |-> val, calls |-> cs]

\* a JSON object as a Go value
Object(text) == [kind |-> "value", elems |-> <<text>>]

\* Context.getbso: the route gives every request a bsoId, ok is true, and the
\* 400 of an invalid id is written without ending the request
getbso(r) ==
    [ok |-> TRUE,
     resp |-> IF r.bsoIdOk THEN NoWrite ELSE HttpError("Invalid bso ID", 400)]

\* Context.hBsoGET
hBsoGET(r) ==
    LET b == getbso(r)
        c == getcid(r, FALSE)
        get == Call("GetBSO", <<c.cId, r.bsoId>>)
        cs == IF c.err = "nil" THEN c.calls \o <<get>> ELSE c.calls
        err == IF c.err = "nil" THEN r.bso ELSE c.err
    IN  IF ~b.ok THEN Handled(b.resp, {}, NoValue, <<>>)
        ELSE IF err = "nil"
        THEN Handled(Then(b.resp, JsonNewline(r.accept, Object("{bso}"))), {},
                     [kind |-> "bso", list |-> <<r.bsoId>>, failed |-> {}], cs)
        ELSE IF err = "ErrNotFound"
        THEN Handled(Then(b.resp, HttpError("404 page not found", 404)),
                     {}, NoValue, cs)
        ELSE Handled(Then(b.resp, ContextError), {}, NoValue, cs)

\* the requests for one BSO
BsoGetRequests ==
    [route : {"hBsoGET"},
     accept : {"application/json", "application/newlines"},
     collection : {"bookmarks"},
     coll : ReadLookups,
     bsoId : {"aaa"},
     bsoIdOk : BOOLEAN,                    \* syncstorage.BSOIdOk(bId)
     bso : {"nil", "ErrNotFound", "error"}]  \* the err of Dispatch.GetBSO

\* A numeric query parameter: absent (or empty), not a number for
\* strconv, or the number n with the answer of the syncstorage check
\* (NewerOk, LimitOk, OffsetOk) for it.  newer is given in hundredths of a
\* second.
Absent == [kind |-> "absent", n |-> 0, ok |-> TRUE]
Unparsable == [kind |-> "unparsable", n |-> 0, ok |-> TRUE]
Num(n, ok) == [kind |-> "number", n |-> n, ok |-> ok]

\* the parameter is there and strconv or the syncstorage check refuses it
Refused(q) == q.kind = "unparsable" \/ (q.kind = "number" /\ ~q.ok)

\* an id of the ids parameter, trimmed, with the answer of BSOIdOk for it
GoodId(a) == [id |-> a, ok |-> TRUE]
BadId == [id |-> "bad id", ok |-> FALSE]

\* n ids, the last of them last
Repeat(n, x, last) == [i \in 1..n |-> IF i = n THEN last ELSE x]

ShortIds == {<<>>, <<GoodId("a")>>, <<GoodId("a"), BadId>>}
LongIds ==
    {Repeat(MaxGetIds, GoodId("a"), GoodId("b")),
     Repeat(MaxGetIds + 1, GoodId("a"), GoodId("b")),
     Repeat(MaxGetIds + 1, GoodId("a"), BadId)}

\* Mutant of IdsTooMany: the number of ids is not checked.
IdsTooMany_unchecked(ids) == FALSE

\* len(ids) > 100
IdsTooMany(ids) == Len(ids) > MaxGetIds

\* what Dispatch.GetBSOs answers: an error, no BSO (a nil slice), or two
\* BSOs of three with more to come
GetResults(store) ==
    IF store = "two"
    THEN [bsos |-> <<"a", "b">>, total |-> 3, more |-> TRUE, offset |-> 2]
    ELSE [bsos |-> <<>>, total |-> 0, more |-> FALSE, offset |-> 0]

\* the JSON text of a BSO and of its id
BsoText == [a |-> "{a}", b |-> "{b}"]
IdText == [a |-> "'a'", b |-> "'b'"]

\* Mutant of GetLimit: without the global maximum.
GetLimit_uncapped(given, maxGet) ==
    LET l1 == IF given = 0
              THEN (IF maxGet > 0 THEN maxGet ELSE MAX_BSO_GET_LIMIT)
              ELSE given
    IN  IF l1 > maxGet /\ maxGet > 0 THEN maxGet ELSE l1

\* the limit handed to GetBSOs for the limit of the query (0: none given)
GetLimit(given, maxGet) ==
    LET l1 == IF given = 0
              THEN (IF maxGet > 0 THEN maxGet ELSE MAX_BSO_GET_LIMIT)
              ELSE given
        l2 == IF l1 > maxGet /\ maxGet > 0 THEN maxGet ELSE l1
    IN  IF l2 > MAX_BSO_GET_LIMIT THEN MAX_BSO_GET_LIMIT ELSE l2

\* Context.hCollectionGET
hCollectionGET(r, maxGet) ==
    LET c == getcid(r, FALSE)
        ids == [i \in 1..Len(r.ids) |-> r.ids[i].id]
        newer == IF r.newer.kind = "number" THEN r.newer.n * 10 ELSE 0
        limit == GetLimit(IF r.limit.kind = "number" THEN r.limit.n ELSE 0,
                          maxGet)
        offset == IF r.offset.kind = "number" THEN r.offset.n ELSE 0
        sort == CASE r.sort = "oldest" -> "SORT_OLDEST"
                  [] r.sort = "index" -> "SORT_INDEX"
                  [] OTHER -> "SORT_NEWEST"
        get == Call("GetBSOs", <<c.cId, ids, newer, sort, limit, offset>>)
        res == GetResults(r.store)
        hdrs == {[name |-> "X-Weave-Records", value |-> FormatUint(res.total)]}
                  \cup (IF res.more
                         THEN {[name |-> "X-Weave-Next-Offset",
                                value |-> FormatUint(res.offset)]}
                         ELSE {})
        val == IF r.full
               THEN (IF r.store = "nil" THEN NilValue
                     ELSE [kind |-> "slice",
                           elems |-> [i \in 1..Len(res.bsos) |->
                                         BsoText[res.bsos[i]]]])
               ELSE [kind |-> "slice",
                     elems |-> [i \in 1..Len(res.bsos) |-> IdText[res.bsos[i]]]]
        Bad(msg, status) == Handled(HttpError(msg, status), {}, NoValue, c.calls)
    IN  IF c.err = "ErrNotFound"
        THEN Handled(Response(200, "application/json", <<"[", "]">>),
                     {}, NoValue, c.calls)
        ELSE IF c.err # "nil" THEN Handled(ContextError, {}, NoValue, c.calls)
        ELSE IF r.formErr THEN Bad("Bad query parameters", 400)
        ELSE IF \E i \in 1..Len(r.ids) : ~r.ids[i].ok
        THEN Bad("Invalid bso id", 400)
        ELSE IF IdsTooMany(r.ids) THEN Bad("Too many ids provided", 413)
        ELSE IF r.newer.kind = "unparsable"
        THEN Bad("Invalid newer param format", 400)
        ELSE IF Refused(r.newer) THEN Bad("Invalid newer value", 400)
        ELSE IF Refused(r.limit) THEN Bad("Invalid limit value", 400)
        ELSE IF Refused(r.offset) THEN Bad("Invalid offset value", 400)
        ELSE IF r.sort \notin {"", "newest", "oldest", "index"}
        THEN Bad("Invalid sort value", 400)
        ELSE IF r.store = "error"
        THEN Handled(ContextError, {}, NoValue, c.calls \o <<get>>)
        ELSE Handled(JsonNewline(r.accept, val), hdrs,
                     [kind |-> IF r.full THEN "bsos" ELSE "ids",
                      list |-> res.bsos, failed |-> {}],
                     c.calls \o <<get>>)

\* syncstorage.LimitOk: a limit is a number that is not negative
LimitOk(n) == n >= 0

\* the limits of the query and the values of Context.MaxBSOGetLimit, around
\* zero and around MAX_BSO_GET_LIMIT
LimitValues ==
    {-1, 0, 1, 5, MAX_BSO_GET_LIMIT - 1, MAX_BSO_GET_LIMIT,
     MAX_BSO_GET_LIMIT + 1, MAX_BSO_GET_LIMIT + 500}
ConfiguredLimits == {-1, 0, 1, 3, MAX_BSO_GET_LIMIT, MAX_BSO_GET_LIMIT + 500}

\* the collection GET requests that differ in their limit only
LimitRequests ==
    [route : {"hCollectionGET"},
     accept : {"application/json"},
     collection : {"bookmarks"},
     coll : {"found"},
     formErr : {FALSE},
     ids : {<<>>},
     newer : {Absent},
     full : {FALSE},
     limit : {Absent} \cup {Num(n, LimitOk(n)) : n \in LimitValues},
     offset : {Absent},
     sort : {""},
     store : {"two"}]

\* the collection GET requests: every combination of the parameters with a
\* short list of ids, and the long lists of ids with the other parameters
\* absent or with a sort that is refused
CollectionGetRequests ==
    [route : {"hCollectionGET"},
     accept : {"application/json", "application/newlines"},
     collection : {"bookmarks"},
     coll : ReadLookups,
     formErr : BOOLEAN,                              \* r.ParseForm() fails
     ids : ShortIds,
     newer : {Absent, Unparsable, Num(150, TRUE), Num(-150, FALSE)},
     full : BOOLEAN,
     limit : {Absent, Unparsable, Num(-1, FALSE), Num(0, TRUE), Num(5, TRUE)},
     offset : {Absent, Unparsable, Num(-1, FALSE), Num(2, TRUE)},
     sort : {"", "oldest", "bogus"},
     store : {"error", "nil", "two"}]
    \cup
    [route : {"hCollectionGET"},
     accept : {"application/json"},
     collection : {"bookmarks"},
     coll : {"found", "ErrNotFound"},
     formErr : {FALSE},
     ids : LongIds,
     newer : {Absent},
     full : {FALSE},
     limit : {Absent},
     offset : {Absent},
     sort : {"", "index", "bogus"},
     store : {"two"}]
    \cup LimitRequests

\* A line of a POST body (an element, when the body is one JSON array): blank,
\* no JSON, or a BSO with its id, the answer of BSOIdOk for the id, whether
\* its payload is longer than MAX_BSO_PAYLOAD_SIZE, and its ttl (<<>>: none)
Blank == [kind |-> "blank", id |-> "", idOk |-> FALSE, big |-> FALSE, ttl |-> <<>>]
Garbage == [kind |-> "garbage", id |-> "", idOk |-> FALSE, big |-> FALSE, ttl |-> <<>>]
Item(id, idOk, big, ttl) ==
    [kind |-> "item", id |-> id, idOk |-> idOk, big |-> big, ttl |-> ttl]

OkItem == Item("ok-id", TRUE, FALSE, <<>>)
TtlItem == Item("b", TRUE, FALSE, <<3>>)
BadIdItem == Item("bad id", FALSE, FALSE, <<>>)
BigItem == Item("c", TRUE, TRUE, <<>>)

BodyLines == {Blank, Garbage, OkItem, TtlItem, BadIdItem, BigItem}

\* the longest of the bodies that are enumerated in full
MaxLines == 2

\* the bodies: a JSON array or lines separated by "\n"
PostBodies ==
    [format : {"array", "lines"},
     lines : UNION {[1..n -> BodyLines] : n \in 0..MaxLines}
               \cup {Repeat(MAX_BSO_PER_POST_REQUEST, OkItem, TtlItem),
                     Repeat(MAX_BSO_PER_POST_REQUEST + 1, OkItem, TtlItem),
                     Repeat(MAX_BSO_PER_POST_REQUEST + 1, OkItem, BadIdItem),
                     Repeat(MAX_BSO_PER_POST_REQUEST + 1, OkItem, BigItem),
                     Repeat(MAX_BSO_PER_POST_REQUEST + 1, OkItem, Garbage)}]

\* the loop over splitData: blank lines are skipped, a line that is no JSON
\* ends the request
SplitLoop(lines, posted) ==
    LET IsItem(l) == l.kind = "item"
    IN  [err |-> \E i \in 1..Len(lines) : lines[i].kind = "garbage",
         posted |-> posted \o SelectSeq(lines, IsItem)]

\* The decoding of the body into posted.  For application/json and
\* text/plain the body has to be one JSON array of BSOs; for
\* application/newlines a body that is one array is one line that is no BSO.
Decode(r) ==
    IF r.ct \in {"application/json", "text/plain"}
    THEN IF /\ ~r.readErr
            /\ r.body.format = "array"
            /\ \A i \in 1..Len(r.body.lines) : r.body.lines[i].kind = "item"
         THEN [resp |-> NoWrite, posted |-> r.body.lines]
         ELSE [resp |-> HttpError("Invalid JSON posted", 400), posted |-> <<>>]
    ELSE IF r.readErr
         THEN [resp |-> HttpError("Could not read Body", 500), posted |-> <<>>]
    ELSE IF r.body.format = "array" \/ SplitLoop(r.body.lines, <<>>).err
         THEN [resp |-> HttpError("Invalid JSON posted for item", 400),
               posted |-> <<>>]
    ELSE [resp |-> NoWrite, posted |-> SplitLoop(r.body.lines, <<>>).posted]

\* Mutant of TooMany: one BSO more is let through.
TooMany_plus_one(posted) == Len(posted) > MAX_BSO_PER_POST_REQUEST + 1

\* len(posted) > MAX_BSO_PER_POST_REQUEST
TooMany(posted) == Len(posted) > MAX_BSO_PER_POST_REQUEST

\* the validation loop: the answer to the first BSO that is refused
Validate(posted) ==
    LET refused == {i \in 1..Len(posted) : ~posted[i].idOk \/ posted[i].big}
        i == CHOOSE j \in refused : \A k \in refused : j <= k
    IN  IF refused = {} THEN NoWrite
        ELSE IF ~posted[i].idOk
             THEN HttpError("Invalid or missing Id in data", 400)
        ELSE HttpError("payload greater than max", 400)

\* posted[].TTL from seconds to milliseconds
Millis(posted) ==
    [i \in 1..Len(posted) |->
        IF posted[i].ttl = <<>> THEN posted[i]
        ELSE [posted[i] EXCEPT !.ttl = <<posted[i].ttl[1] * 1000>>]]

\* what Dispatch.PostBSOs answers: an error, every BSO stored, or every BSO
\* but the last stored
PostResults(store, posted) ==
    LET n == Len(posted)
        stored == IF store = "partial" /\ n > 0 THEN n - 1 ELSE n
    IN  [kind |-> "PostResults",
         list |-> [i \in 1..stored |-> posted[i].id],
         failed |-> {posted[i].id : i \in (stored + 1)..n}]

\* Context.hCollectionPOST
hCollectionPOST(r) ==
    LET d == Decode(r)
        v == Validate(d.posted)
        c == getcid(r, TRUE)
        post == Call("PostBSOs", <<c.cId, Millis(d.posted)>>)
        m == "ModifiedToString(results.Modified)"
    IN  IF r.ct \notin {"application/json", "text/plain", "application/newlines"}
        THEN Handled(HttpError("Not acceptable Content-Type", 415),
                     {}, NoValue, <<>>)
        ELSE IF d.resp # NoWrite THEN Handled(d.resp, {}, NoValue, <<>>)
        ELSE IF TooMany(d.posted)
        THEN Handled(HttpError("Exceeded 100 BSO per request", 413),
                     {}, NoValue, <<>>)
        ELSE IF v # NoWrite THEN Handled(v, {}, NoValue, <<>>)
        ELSE IF c.err = "ErrInvalidCollectionName"
        THEN Handled(HttpError("ErrInvalidCollectionName", 400),
                     {}, NoValue, c.calls)
        ELSE IF c.err # "nil" THEN Handled(ContextError, {}, NoValue, c.calls)
        ELSE IF r.store = "error"
        THEN Handled(ContextError, {}, NoValue, c.calls \o <<post>>)
        ELSE Handled(JsonNewline(r.accept, Object("{PostResults}")),
                     {[name |-> "X-Last-Modified", value |-> m]},
                     PostResults(r.store, d.posted),
                     c.calls \o <<post>>)

\* the collection POST requests
CollectionPostRequests ==
    [route : {"hCollectionPOST"},
     accept : {"application/json", "application/newlines", "text/html"},
     collection : {"bookmarks"},
     coll : WriteLookups,
     ct : {"application/json", "text/plain", "application/newlines",
           "text/html"},
     readErr : BOOLEAN,                       \* reading r.Body fails
     body : PostBodies,
     store : {"error", "ok", "partial"}]

\* the text of a modified timestamp
ModifiedText == "ModifiedToString(modified)"

\* the headers a handler sets after its first write are not sent
Unsent(before, hdrs) == IF before.status = 0 THEN hdrs ELSE {}

\* Context.hBsoPUT
hBsoPUT(r) ==
    LET b == getbso(r)
        c == getcid(r, TRUE)
        ttl == IF r.ttl = <<>> THEN <<>> ELSE <<r.ttl[1] * 1000>>
        put == Call("PutBSO", <<c.cId, r.bsoId, ttl>>)
        Bad(msg, status, cs) ==
            Handled(Then(b.resp, HttpError(msg, status)), {}, NoValue, cs)
    IN  IF ~b.ok THEN Handled(b.resp, {}, NoValue, <<>>)
        ELSE IF c.err = "ErrNotFound"
        THEN Handled(b.resp, {}, NoValue, c.calls)
        ELSE IF ~r.jsonOk THEN Bad("Invalid JSON", 400, c.calls)
        ELSE IF r.put = "ErrPayloadTooBig"
        THEN Bad("Request Entity Too Large", 413, c.calls \o <<put>>)
        ELSE IF r.put # "nil" THEN Bad(r.put, 400, c.calls \o <<put>>)
        ELSE Handled(Then(b.resp, Response(200, "text/plain", <<ModifiedText>>)),
                     Unsent(b.resp, {[name |-> "X-Last-Modified",
                                      value |-> ModifiedText]}),
                     NoValue, c.calls \o <<put>>)

\* Context.hBsoDELETE
hBsoDELETE(r) ==
    LET b == getbso(r)
        c == getcid(r, FALSE)
        del == Call("DeleteBSO", <<c.cId, r.bsoId>>)
    IN  IF ~b.ok THEN Handled(b.resp, {}, NoValue, <<>>)
        ELSE IF c.err = "ErrNotFound"
        THEN Handled(Then(b.resp, HttpError("404 page not found", 404)),
                     {}, NoValue, c.calls)
        ELSE IF r.del # "nil"
        THEN Handled(Then(b.resp, ContextError), {}, NoValue,
                     c.calls \o <<del>>)
        ELSE Handled(Then(b.resp, Response(200, "text/plain", <<ModifiedText>>)),
                     Unsent(b.resp, {[name |-> "X-Last-Modified",
                                      value |-> ModifiedText]}),
                     NoValue, c.calls \o <<del>>)

\* the requests that put one BSO
BsoPutRequests ==
    [route : {"hBsoPUT"},
     accept : {"application/json", "application/newlines"},
     collection : {"bookmarks"},
     coll : WriteLookups,
     bsoId : {"aaa"},
     bsoIdOk : BOOLEAN,                    \* syncstorage.BSOIdOk(bId)
     jsonOk : BOOLEAN,                     \* decoder.Decode(&bso) succeeds
     ttl : {<<>>, <<3>>},
     put : {"nil", "ErrPayloadTooBig", "error"}]  \* the err of Dispatch.PutBSO

\* the requests that delete one BSO
BsoDeleteRequests ==
    [route : {"hBsoDELETE"},
     collection : {"bookmarks"},
     coll : ReadLookups,
     bsoId : {"aaa"},
     bsoIdOk : BOOLEAN,                    \* syncstorage.BSOIdOk(bId)
     del : {"nil", "error"}]               \* the err of Dispatch.DeleteBSO

\* no request is in a handler
ApiIdle ==
    /\ MaxBSOGetLimit = 0
    /\ areq = [route |-> "none"]
    /\ apc = "done"
    /\ aresp = NoWrite
    /\ ahdrs = {}
    /\ aval = NoValue
    /\ calls = <<>>

\* a request arrives at its handler
ApiInit ==
    /\ areq \in BsoGetRequests \cup CollectionGetRequests
                   \cup CollectionPostRequests
                   \cup BsoPutRequests \cup BsoDeleteRequests
    /\ IF areq \in LimitRequests
       THEN MaxBSOGetLimit \in ConfiguredLimits
       ELSE IF areq.route = "hCollectionGET"
       THEN MaxBSOGetLimit \in {0, 3}
       ELSE MaxBSOGetLimit = 0
    /\ apc = "start"
    /\ aresp = NoWrite
    /\ ahdrs = {}
    /\ aval = NoValue
    /\ calls = <<>>

\* the handler runs and returns
Serve(h) ==
    /\ apc = "start"
    /\ aresp' = h.resp
    /\ ahdrs' = h.hdrs
    /\ aval' = h.val
    /\ calls' = h.calls
    /\ apc' = "done"
    /\ UNCHANGED <<MaxBSOGetLimit, areq>>
    /\ UNCHANGED <<poolVars, hawkVars, pureVars>>

serve_hCollectionGET ==
    /\ areq.route = "hCollectionGET"
    /\ Serve(hCollectionGET(areq, MaxBSOGetLimit))

serve_hCollectionPOST ==
    /\ areq.route = "hCollectionPOST"
    /\ Serve(hCollectionPOST(areq))

serve_hBsoGET ==
    /\ areq.route = "hBsoGET"
    /\ Serve(hBsoGET(areq))

serve_hBsoPUT ==
    /\ areq.route = "hBsoPUT"
    /\ Serve(hBsoPUT(areq))

serve_hBsoDELETE ==
    /\ areq.route = "hBsoDELETE"
    /\ Serve(hBsoDELETE(areq))

ApiNext ==
    \/ serve_hCollectionGET
    \/ serve_hCollectionPOST
    \/ serve_hBsoGET
    \/ serve_hBsoPUT
    \/ serve_hBsoDELETE

\* ------------------------------------------------------------------------
\* The specifications: Spec runs the pool, HawkSpec the authentication
\* ------------------------------------------------------------------------
vars == <<poolVars, hawkVars, pureVars, apiVars>>

Init == PoolInit /\ HawkIdle /\ PureIdle /\ ApiIdle

Next == PoolNext

Spec == Init /\ [][Next]_vars

\* The pool under the scheduling of goroutines: a call that is in progress
\* takes its next step in the end, and a goroutine waiting in p.Lock() gets
\* the mutex in the end although others take it in between (sync.Mutex hands
\* the lock to a starving waiter).  Nothing obliges a caller to start a new
\* call.
Runs(p) ==
    \/ getElement_return(p)
    \/ cleanupHandlers_back(p)
    \/ cleanupHandlers_stop(p)
    \/ cleanupHandlers_prev(p)
    \/ stopHandlers_return(p)

Locks(p) == getElement_relock(p) \/ cleanupHandlers_remove(p)

Fairness == \A p \in Procs : WF_vars(Runs(p)) /\ SF_vars(Locks(p))

LiveSpec == Init /\ [][Next]_vars /\ Fairness

HawkStart == PoolInit /\ HawkInit /\ PureIdle /\ ApiIdle

HawkNext == hawk

HawkSpec == HawkStart /\ [][HawkNext]_vars

CleanupStart == CleanupInit /\ HawkIdle /\ PureIdle /\ ApiIdle

CleanupSpec == CleanupStart /\ [][CleanupNext]_vars

ApiStart == PoolInit /\ HawkIdle /\ PureIdle /\ ApiInit

ApiSpec == ApiStart /\ [][ApiNext]_vars

PureStart == PoolInit /\ HawkIdle /\ PureInit /\ ApiIdle

PureSpec == PureStart /\ [][PureNext]_vars

\* ------------------------------------------------------------------------
\* Claims about the pool
\* ------------------------------------------------------------------------

\* goroutine p returns from getElement in this step
Returns(p) == pc[p] = "ge_ret" /\ pc'[p] = "idle"

\* goroutine p starts getElement(uid) in this step and finds uid in
\* p.elements with a Stopped handler
FindsStopped(p, uid) ==
    /\ pc[p] = "idle" /\ pc'[p] # "idle"
    /\ op'[p] = "getElement" /\ uidArg'[p] = uid
    /\ elements[uid] # Nil
    /\ elements[uid] \in stopped

PoolEmpty ==
    /\ lru = <<>>
    /\ \A u \in UIDs : elements[u] = Nil /\ lrumap[u] = Nil

\* C1: whenever getElement returns (element, created, nil), the handler of the
\* returned element is not Stopped at the moment of the return.
C1_ReturnedNotStopped ==
    [][\A p \in Procs :
          (Returns(p) /\ ret[p].err = "nil") => ret[p].elem \notin stopped]_vars

\* C2: at rest (no getElement, cleanupHandlers or stopHandlers call in
\* progress) elements and lrumap have the same keys, and every node of lru
\* holds an element e with elements[e.uid] = e and lrumap[e.uid] = that node.
C2_AtRestConsistent ==
    (\A p \in Procs : pc[p] = "idle") =>
        /\ \A u \in UIDs : (elements[u] = Nil) <=> (lrumap[u] = Nil)
        /\ \A i \in 1..Len(lru) :
              /\ elements[UidOf(lru[i])] = lru[i]
              /\ lrumap[UidOf(lru[i])] = lru[i]

\* C3: the lru list never holds two nodes for one uid.
C3_OneNodePerUid ==
    \A i, j \in 1..Len(lru) : UidOf(lru[i]) = UidOf(lru[j]) => i = j

\* C4: each time getElement returns, the pool holds at most maxPoolSize
\* elements.
C4_SizeBoundAtReturn ==
    [][\A p \in Procs :
          Returns(p) => (Len(lru') <= maxPoolSize
                         /\ Cardinality({u \in UIDs : elements'[u] # Nil})
                               <= maxPoolSize)]_vars

C10_StopAllEmpties ==
    \A p \in Procs :
        (pc[p] = "sh_ret" /\ alone[p]) => (PoolEmpty /\ snap[p] \subseteq stopped)

\* C10 witness: such a stopHandlers call, on a pool that held two elements.
C10_Witness ==
    \E p \in Procs : pc[p] = "sh_ret" /\ alone[p] /\ Cardinality(snap[p]) >= 2

\* goroutine p starts a getElement call in this step that builds a handler
\* and inserts it before it gives up the pool lock
CreatesNow(p) == pc[p] = "idle" /\ pc'[p] = "ge_ret" /\ ret'[p].created

\* C11: once stopHandlers has returned, no later getElement call creates a
\* handler, and the pool holds no handler that is not Stopped.
C11_NoHandlerAfterStopAll ==
    [][stopAll => /\ \A p \in Procs : ~CreatesNow(p)
                  /\ Nodes(lru') \subseteq stopped']_vars

\* goroutine p starts a getElement call in this step that finds its uid
\* present and not Stopped
Hits(p) ==
    /\ pc[p] = "idle" /\ pc'[p] = "ge_ret"
    /\ ret'[p].err = "nil" /\ ~ret'[p].created

\* the cleanup run by goroutine p removes lruElement[p] in this step
Evicts(p) == pc[p] = "cl_remove" /\ pc'[p] # "cl_remove"

\* a was acquired later than b
Later(a, b) ==
    /\ InList(recent, a) /\ InList(recent, b)
    /\ IndexOf(recent, a) < IndexOf(recent, b)

\* C12: in a sequential run, getElement on a present, not Stopped uid moves it
\* to the front of lru and leaves the order of the others; every element a
\* cleanup removes has been stopped and was acquired less recently than every
\* element that remains; and the uid being acquired by the getElement that
\* runs the cleanup is not the one evicted.
C12_EvictionIsLRU ==
    [][\A p \in Procs :
          /\ (sequential' /\ Hits(p)) =>
                lru' = <<ret'[p].elem>> \o SelectSeq(lru, LAMBDA x : x # ret'[p].elem)
          /\ (sequential /\ Evicts(p)) =>
                /\ lruElement[p] \in stopped
                /\ lruElement[p] \notin Nodes(lru')
                /\ \A r \in Nodes(lru') : Later(r, lruElement[p])
                /\ op[p] = "getElement" => UidOf(lruElement[p]) # uidArg[p]]_vars

\* C12 witness: in a sequential run the cleanup of a getElement has evicted
\* one of two elements, and the one that remains is not the uid being acquired.
C12_Witness ==
    /\ sequential
    /\ \E p \in Procs :
          /\ pc[p] = "ge_relock"
          /\ Len(lru) = 1 /\ recent = lru
          /\ UidOf(lru[1]) # uidArg[p]

\* a getElement call is returning the element of uid that it found in the pool
HitOn(uid) ==
    \E p \in Procs :
        /\ pc[p] = "ge_ret" /\ uidArg[p] = uid
        /\ ret[p].err = "nil" /\ ~ret[p].created

\* C14: an element of the pool that is not acquired again is stopped and
\* removed from the pool in the end, whatever the size of the pool: from
\* every state in which uid has an element, a state follows in which that
\* element is gone or a getElement has acquired it again.
C14_IdleIsReaped ==
    \A uid \in UIDs :
        \A k \in 1..MaxElems :
            (elements[uid] = <<uid, k>>)
                ~> (elements[uid] # <<uid, k>> \/ HitOn(uid))

\* ------------------------------------------------------------------------
\* Claims about Context.hawk
\* ------------------------------------------------------------------------

\* the number a string of decimal digits denotes
RECURSIVE DigitsValue(_)
DigitsValue(d) ==
    IF Len(d) = 0 THEN 0 ELSE 10 * DigitsValue(SubSeq(d, 1, Len(d) - 1)) + d[Len(d)]

\* d is the decimal rendering of n: digits only, no leading zero
IsDecimalOf(d, n) ==
    /\ Len(d) >= 1
    /\ \A i \in 1..Len(d) : d[i] \in 0..9
    /\ Len(d) > 1 => d[1] # 0
    /\ DigitsValue(d) = n

SomeSecretParses == \E i \in 1..Len(req.parse) : req.parse[i] = "ok"

SomeSecretExpired == \E i \in 1..Len(req.parse) : req.parse[i] = "Expired"

\* C6: with two or more secrets, a token that parses under any one of them
\* passes the token step: it is not answered 400 "Invalid token", and the
\* token that parsed is the one used.
C6_AnySecretAuthenticates ==
    (~DisableHawk /\ Len(req.parse) >= 2 /\ SomeSecretParses) =>
        /\ failedAt # "token"
        /\ hpc \in {"valid", "hash", "call"} =>
              (tokenError = "nil" /\ parsedToken = req.tokUid)

\* C7: when no secret parses the token, the error reported is Expired if some
\* secret answered Expired and Invalid otherwise, and the status is 400.
C7_ErrorPrecedence ==
    (failedAt = "token" /\ ~SomeSecretParses) =>
        /\ resp.status = 400
        /\ tokenError = (IF SomeSecretExpired THEN "Expired" ELSE "Invalid")
        /\ resp.msg = tokenError

C9_UidFromToken ==
    /\ (~DisableHawk /\ called # NoCall) => IsDecimalOf(called, req.tokUid)
    /\ (~DisableHawk /\ nreq = 2 /\ hpc = "done") => called = first
    /\ (DisableHawk /\ called # NoCall) => called = req.urlUid

\* C9 witness: two authenticated requests that differ in the URL uid only were
\* both handed the uid of the token, which is neither URL uid.
C9_Witness ==
    /\ ~DisableHawk
    /\ nreq = 2
    /\ called # NoCall /\ first = called
    /\ req.tokUid = MaxTokenUid
    /\ called # req.urlUid

\* ------------------------------------------------------------------------
\* Claims about TwoLevelPath, PathAndFile and the eviction batch
\* ------------------------------------------------------------------------

\* the character of uidIn at index i, counted from 0 as the source does
UidChar(i) == uidIn[i + 1]

Uid12345678 == <<"1", "2", "3", "4", "5", "6", "7", "8">>

\* C18: for a uid of length L, TwoLevelPath returns
\* [uid[L-1]+uid[L-2], uid[L-3]+uid[L-4]] when L >= 4, [uid[L-1]+uid[L-2]]
\* when 2 <= L < 4 and the empty list when L < 2, so that 12345678 gives
\* [87, 65]; PathAndFile names the file uid + ".db" and puts it under the
\* base and these directories, so that no other uid has the same file name
\* and, for a base on disk, the same database file path.
C18_TwoLevelPath ==
    (applied = "PathAndFile" /\ fpc = "done") =>
        LET L == Len(uidIn) IN
        /\ L >= 4 =>
              pathOut.dirs = << <<UidChar(L - 1), UidChar(L - 2)>>,
                                <<UidChar(L - 3), UidChar(L - 4)>> >>
        /\ (2 <= L /\ L < 4) =>
              pathOut.dirs = << <<UidChar(L - 1), UidChar(L - 2)>> >>
        /\ L < 2 => pathOut.dirs = <<>>
        /\ uidIn = Uid12345678 =>
              pathOut.dirs = << <<"8", "7">>, <<"6", "5">> >>
        /\ pathOut.file = uidIn \o <<".", "d", "b">>
        /\ \A i \in 1..Len(pathOut.dirs) :
              pathOut.path[Len(pathOut.path) - Len(pathOut.dirs) + i]
                  = pathOut.dirs[i]
        /\ \A u \in UidStrings \ {uidIn} :
              /\ PathAndFile(baseIn, u).file # pathOut.file
              /\ baseIn # InMemory => DbFile(baseIn, u) # pathOut.dbFile
        /\ baseIn # InMemory =>
              /\ pathOut.dbFile[Len(pathOut.dbFile)] = pathOut.file
              /\ Len(pathOut.dbFile) = Len(pathOut.path) + 1

\* C18 witness: the path of uid 12345678 under a base on disk.
C18_Witness ==
    /\ applied = "PathAndFile" /\ fpc = "done"
    /\ uidIn = Uid12345678
    /\ baseIn # InMemory
    /\ Len(pathOut.dirs) = 2

\* C20 as the spec states it: the batch is ceil(maxPoolSize / 10), the least
\* integer that is not below a tenth of the pool size.
C20_BatchIsCeiling ==
    (applied = "cleanupBatch" /\ fpc = "done") =>
        /\ 10 * batchOut >= sizeIn
        /\ 10 * (batchOut - 1) < sizeIn

\* C20 amended: the batch is 1 + floor(maxPoolSize / 10), the least integer
\* above a tenth of the pool size: ceil(maxPoolSize / 10) when maxPoolSize is
\* no multiple of 10, and one more than that when it is.
C20_BatchIsOnePlusFloor ==
    (applied = "cleanupBatch" /\ fpc = "done") =>
        /\ 10 * batchOut > sizeIn
        /\ 10 * (batchOut - 1) <= sizeIn
        /\ sizeIn % 10 # 0 => 10 * (batchOut - 1) < sizeIn
        /\ sizeIn % 10 = 0 => 10 * (batchOut - 1) = sizeIn

\* C20 witness: the batch of a pool size that is a multiple of 10.
C20_Witness ==
    /\ applied = "cleanupBatch" /\ fpc = "done"
    /\ sizeIn = 20 /\ batchOut = 3

\* ------------------------------------------------------------------------
\* Claims about the response shaper
\* ------------------------------------------------------------------------

\* C19: under Accept: application/newlines a value that marshals to a JSON
\* array of n elements is written as n lines, one element per line in the
\* order of the array, each ended by "\n"; a value that is no array is written
\* as the whole document followed by one "\n"; the Content-Type is
\* application/newlines.  Under any other Accept the document is written as
\* it is, with Content-Type application/json.
C19_NewlineFraming ==
    (applied = "JsonNewline" /\ fpc = "done" /\ valIn.kind # "unsupported") =>
        IF acceptIn = "application/newlines"
        THEN /\ written.ctype = "application/newlines"
             /\ valIn.kind = "slice" =>
                   /\ Len(written.body) = 2 * Len(valIn.elems)
                   /\ \A i \in 1..Len(valIn.elems) :
                         /\ written.body[2 * i - 1] = valIn.elems[i]
                         /\ written.body[2 * i] = "\n"
             /\ valIn.kind # "slice" =>
                   written.body = Marshal(valIn).js \o <<"\n">>
        ELSE /\ written.ctype = "application/json"
             /\ written.body = Marshal(valIn).js

\* the handler has called the Dispatch operation name
Called(name) == \E i \in 1..Len(calls) : calls[i].op = name

\* the request has been answered by the handler of route
Answered(route) == apc = "done" /\ areq.route = route

\* C15: a GET of a collection that does not exist answers 200 with the body
\* [] and Content-Type application/json and GetBSOs is not called; a GET of
\* a BSO (with an id that is one) answers 404 when the collection or the BSO
\* does not exist.
C15_MissingIsEmptyOr404 ==
    /\ (Answered("hCollectionGET") /\ areq.coll = "ErrNotFound")
          => /\ aresp = Response(200, "application/json", <<"[", "]">>)
             /\ ~Called("GetBSOs")
    /\ (/\ Answered("hBsoGET") /\ areq.bsoIdOk
        /\ \/ areq.coll = "ErrNotFound"
           \/ areq.coll = "found" /\ areq.bso = "ErrNotFound")
          => aresp.status = 404

\* C15 witness: a collection GET with every query parameter set and the
\* newlines format asked for has been answered for a missing collection
C15_Witness ==
    /\ Answered("hCollectionGET") /\ areq.coll = "ErrNotFound"
    /\ areq.accept = "application/newlines"
    /\ areq.ids # <<>> /\ areq.limit.kind = "number"
    /\ aresp.status = 200

\* the ids of the query are all BSO ids
IdsOk(r) == \A i \in 1..Len(r.ids) : r.ids[i].ok

\* a query value of the request is invalid
InvalidQuery(r) ==
    \/ ~IdsOk(r)
    \/ Len(r.ids) > 100
    \/ Refused(r.newer) \/ Refused(r.limit) \/ Refused(r.offset)
    \/ r.sort \notin {"", "newest", "oldest", "index"}

\* C16 as the specification states it, for a collection that exists and a
\* query string that parses: any invalid query value yields status 400 and
\* GetBSOs is not called.
C16_InvalidQueryIs400 ==
    (/\ Answered("hCollectionGET")
     /\ areq.coll = "found" /\ ~areq.formErr
     /\ InvalidQuery(areq))
      => aresp.status = 400 /\ ~Called("GetBSOs")

\* C16, amended: for a collection GET with an invalid query value GetBSOs is
\* not called, and when the collection exists the status is 400, except that
\* more than 100 ids, all of them BSO ids, in a query string that parses
\* yield 413.
C16_InvalidQueryIs400Or413 ==
    (Answered("hCollectionGET") /\ InvalidQuery(areq))
      => /\ ~Called("GetBSOs")
         /\ areq.coll = "found"
              => aresp.status =
                   IF ~areq.formErr /\ IdsOk(areq) /\ Len(areq.ids) > 100
                   THEN 413 ELSE 400

\* C16 witness: a query with 101 valid ids and a sort that is refused has
\* been answered
C16_Witness ==
    /\ Answered("hCollectionGET")
    /\ areq.coll = "found" /\ ~areq.formErr
    /\ Len(areq.ids) = 101 /\ IdsOk(areq)
    /\ areq.sort = "bogus"
    /\ aresp.status = 413

\* the request has a Content-Type the handler takes and a body that decodes
Decodes(r) ==
    /\ r.ct \in {"application/json", "text/plain", "application/newlines"}
    /\ Decode(r).resp = NoWrite

\* C17: a collection POST carrying more than 100 items is answered 413
\* whatever the items contain, and before any storage effect: no Dispatch
\* operation is called, so the collection is not created and PostBSOs is not
\* called.
C17_TooManyIs413 ==
    (/\ Answered("hCollectionPOST")
     /\ Decodes(areq) /\ Len(Decode(areq).posted) > 100)
      => /\ aresp.status = 413
         /\ calls = <<>>

\* C17 witness: 101 items, the last with an invalid id, posted to a collection
\* that does not exist yet, have been answered
C17_Witness ==
    /\ Answered("hCollectionPOST")
    /\ Decodes(areq) /\ Len(Decode(areq).posted) = 101
    /\ ~Decode(areq).posted[101].idOk
    /\ areq.coll = "ErrNotFound"
    /\ aresp.status = 413

\* the items of posted with a valid id and a payload within the limit
Valid(posted) ==
    LET Good(b) == b.idOk /\ ~b.big IN SelectSeq(posted, Good)

\* C13: a collection POST of several items of which one has an invalid id
\* and the others are valid is not rejected: the valid items are handed to
\* PostBSOs and, when it stores them, the response is 200 with the valid ids
\* under success and the invalid id under failed.
C13_PartialSuccess ==
    LET posted == Decode(areq).posted
        bad == {i \in 1..Len(posted) : ~posted[i].idOk}
    IN  (/\ Answered("hCollectionPOST")
         /\ Decodes(areq)
         /\ Len(posted) \in 2..100
         /\ Cardinality(bad) = 1
         /\ Len(Valid(posted)) = Len(posted) - 1
         /\ areq.coll \in {"found", "ErrNotFound"}
         /\ areq.store = "ok")
          => /\ aresp.status = 200
             /\ Called("PostBSOs")
             /\ aval.list = [i \in 1..Len(Valid(posted)) |-> Valid(posted)[i].id]
             /\ \A i \in bad : posted[i].id \in aval.failed

\* C22: the pool lock is held only around the mutations of the maps and of
\* the list: no goroutine holds it while it opens a database
\* (syncstorage.NewDB), creates the storage directory (os.Stat, os.MkdirAll)
\* or calls StopHTTP.
C22_NoBlockingUnderLock == underLock = {}

\* the part of C22 that the pool keeps: StopHTTP is never called by a
\* goroutine that holds the pool lock
StopOutsideLock == "StopHTTP" \notin underLock

\* what cleanupHandlers(maxClean) called on a list has to remove, and what
\* it has to leave
Removed(call) ==
    IF call.maxClean < Len(call.lru) THEN call.maxClean ELSE Len(call.lru)

Kept(call) == SubSeq(call.lru, 1, Len(call.lru) - Removed(call))

\* the map of a pool that holds the elements of l
MapOf(l) == [u \in UIDs |-> IF \E e \in Nodes(l) : UidOf(e) = u
                              THEN CHOOSE e \in Nodes(l) : UidOf(e) = u
                              ELSE Nil]

\* when the call returns the pool holds what it had without the min(n, s)
\* elements at the back; what is kept is never stopped
CleanupEffect ==
    /\ \A e \in Nodes(Kept(cleanupIn)) : e \in Nodes(lru) /\ e \notin stopped
    /\ pc[Cleaner] \in {"cl_ret", "idle"}
         => /\ lru = Kept(cleanupIn)
            /\ elements = MapOf(Kept(cleanupIn))
            /\ lrumap = MapOf(Kept(cleanupIn))

\* an element leaves lru, lrumap and elements in one step, after StopHTTP,
\* taken by a goroutine that finds the pool lock free
CleanupStep ==
    \A e \in Nodes(lru) \ Nodes(lru') :
        /\ e \in stopped
        /\ mu = 0
        /\ elements'[UidOf(e)] = Nil /\ lrumap'[UidOf(e)] = Nil
        /\ e = lru[Len(lru)]

\* C21: one call cleanupHandlers(n) on a pool of s elements stops and removes
\* exactly min(n, s) elements, taken from the back of the list; each has had
\* StopHTTP invoked before it is removed from lru, lrumap and elements, each
\* removal happens under the pool lock, and every other element is left not
\* stopped and in the pool.
C21_CleanupRemovesMin == []CleanupEffect /\ [][CleanupStep]_vars

\* C21 witness: cleanupHandlers(2), called on a pool of three elements while
\* a getElement call was holding the lock, has returned and one element is
\* left
C21_Witness ==
    /\ pc[Cleaner] = "cl_ret"
    /\ Len(cleanupIn.lru) = 3 /\ cleanupIn.maxClean = 2
    /\ ~sequential
    /\ Len(lru) = 1

\* the pool lock is held only by a goroutine inside getElement that releases
\* it when it returns, and a goroutine about to run the deferred Unlock holds
\* the lock
LockBalanced ==
    /\ mu # 0 => pc[mu] = "ge_ret"
    /\ \A p \in Procs : pc[p] = "ge_ret" => mu = p

\* C26: under any interleaving of concurrent getElement, cleanupHandlers and
\* stopHandlers calls the pool lock is held only by a goroutine that is on
\* its way to the deferred Unlock of getElement, on every path of it, it is
\* unlocked only by the goroutine that holds it, and every call that has
\* started returns (storage open and StopHTTP return, a waiting Lock is
\* served).
C26_LockBalanceAndProgress ==
    /\ []LockBalanced
    /\ \A p \in Procs : (pc[p] # "idle") ~> (pc[p] = "idle")

\* C26 witness: a getElement call that released the lock and ran the
\* cleanup waits for the lock again while another getElement call holds it
C26_Witness ==
    \E p, q \in Procs :
        /\ p # q
        /\ pc[p] = "ge_relock"
        /\ pc[q] = "ge_ret" /\ mu = q

\* the place of the GetBSOs call among the Dispatch calls of the handler
GetBSOsCall == (CHOOSE i \in 1..Len(calls) : calls[i].op = "GetBSOs")

\* C23: for every collection GET that reaches GetBSOs the limit passed to it
\* is at least 1 and at most min(MaxBSOGetLimit, 2500) when MaxBSOGetLimit > 0
\* and at most 2500 otherwise, whatever accepted limit the query gives,
\* an absent one and limit=0 included.
C23_LimitWithinBounds ==
    (Answered("hCollectionGET") /\ Called("GetBSOs"))
      => LET limit == calls[GetBSOsCall].args[5]
             most == IF MaxBSOGetLimit > 0 /\ MaxBSOGetLimit < 2500
                     THEN MaxBSOGetLimit ELSE 2500
         IN  1 <= limit /\ limit <= most

\* C23 witness: a query with limit=3000 under MaxBSOGetLimit = 3000 has
\* reached GetBSOs with the limit 2500
C23_Witness ==
    /\ Answered("hCollectionGET") /\ Called("GetBSOs")
    /\ areq.limit = Num(3000, TRUE)
    /\ MaxBSOGetLimit = 3000
    /\ calls[GetBSOsCall].args[5] = 2500

\* C24: the payload-hash step requires a Content-Type only when the Hawk
\* header carries a payload hash and the body is not empty: a request with a
\* payload hash, an empty body and no Content-Type header is not answered
\* 400 "Content-Type missing".
C24_EmptyBodyNeedsNoContentType ==
    (req.hash # NoHash /\ req.body = <<>> /\ req.ct = "")
      => ~(resp.status = 400 /\ resp.msg = "Content-Type missing")

\* the request is for one BSO and has been answered
AnsweredBso ==
    apc = "done" /\ areq.route \in {"hBsoGET", "hBsoPUT", "hBsoDELETE"}

\* the collection of the request is not resolved: its name is refused or the
\* lookup fails, or it does not exist and the handler does not create it or
\* fails to
CollectionFails(r) ==
    \/ r.coll \in {"ErrInvalidCollectionName", "error", "createError"}
    \/ r.coll = "ErrNotFound" /\ r.route # "hBsoPUT"

\* the Dispatch operations on one BSO that the handler has invoked
BsoCalls ==
    {i \in 1..Len(calls) : calls[i].op \in {"GetBSO", "PutBSO", "DeleteBSO"}}

\* what has been written is one http.Error: a status, one message, "\n"
OneError(written_) ==
    /\ written_.status >= 400
    /\ Len(written_.body) = 2 /\ written_.body[2] = "\n"

\* C25: in the handlers of one BSO (GET, PUT, DELETE), once the validation
\* of the bsoId or the resolution of the collection has failed, no GetBSO,
\* PutBSO or DeleteBSO is invoked and exactly one response is written; PutBSO
\* and DeleteBSO are never called with an invalid bsoId or with the zero
\* collection id of a failed getcid.
C25_NoStorageAfterFailure ==
    AnsweredBso
      => /\ (~areq.bsoIdOk \/ CollectionFails(areq))
              => BsoCalls = {} /\ OneError(aresp)
         /\ \A i \in BsoCalls : areq.bsoIdOk /\ calls[i].args[1] # 0

====
